---------------------------- MODULE Spec2Model ----------------------------
(***************************************************************************)
(* Tensile MLFeatures (Source/lib/include/Tensile/MLFeatures.hpp).         *)
(*                                                                         *)
(* Seven MLFeature classes, each a configured struct with a static Type()  *)
(* and a const operator()(ContractionProblem const&) returning a float.    *)
(* The model keeps the arithmetic of the code: sizes are size_t, every     *)
(* product is an IEEE-754 binary32 product (round to nearest, ties to      *)
(* even), ceil is the float ceil.  A binary32 value is the record          *)
(* [m, e] standing for m * 2^e with m = 0 or 2^23 <= m < 2^24.             *)
(*                                                                         *)
(* Callers (threads) each own one configured feature and evaluate it       *)
(* against one shared, read-only ContractionProblem, one source line per   *)
(* step, so that evaluations interleave.                                   *)
(***************************************************************************)
EXTENDS Integers, Naturals, Sequences, FiniteSets, TLC

(***************************************************************************)
(* Bounds of the model.                                                    *)
(***************************************************************************)
MaxSize == 5
BigSize == 16777217
MaxRank == 2
MaxIndex == 2
MaxTile == 3
MaxDevDiv == 10
NumThreads == 2

(***************************************************************************)
(* IEEE-754 binary32, non-negative finite normal values.                   *)
(***************************************************************************)
MantBits == 24

Two23 == 2^(MantBits - 1)

Two24 == 2^MantBits

Zero == [m |-> 0, e |-> 0]

\* Number of binary digits of n > 0.
RECURSIVE BitLen(_)
BitLen(n) == IF n < 2 THEN 1 ELSE 1 + BitLen(n \div 2)

\* The binary32 value nearest to n * 2^e (n a natural number below 2^31):
\* one rounding, to nearest, ties to the even mantissa.
RoundToFloat(n, e) ==
    IF n = 0 THEN Zero
    ELSE LET bits == BitLen(n) IN
         IF bits <= MantBits
         THEN [m |-> n * 2^(MantBits - bits), e |-> e - (MantBits - bits)]
         ELSE LET k    == bits - MantBits
                  q    == n \div 2^k
                  r    == n % 2^k
                  half == 2^(k - 1)
                  up   == r > half \/ (r = half /\ q % 2 = 1)
                  q1   == IF up THEN q + 1 ELSE q
              IN IF q1 = Two24 THEN [m |-> Two23, e |-> e + k + 1]
                               ELSE [m |-> q1, e |-> e + k]

\* (float)s for a size_t s.
ToFloat(s) == RoundToFloat(s, 0)

\* x * y in binary32: the exact 48-bit product of the mantissas, held as
\* hi * 2^24 + lo (12-bit limbs keep every intermediate below 2^31), and
\* rounded once to 24 bits, to nearest, ties to even.
HalfBits == MantBits \div 2

FMul(x, y) ==
    IF x.m = 0 \/ y.m = 0 THEN Zero
    ELSE LET B   == 2^HalfBits
             ah  == x.m \div B
             al  == x.m % B
             bh  == y.m \div B
             bl  == y.m % B
             mid == ah * bl + al * bh
             low == (mid % B) * B + al * bl
             lo  == low % Two24
             hi  == ah * bh + (mid \div B) + (low \div Two24)
             big == hi >= Two23
             q   == IF big THEN hi ELSE 2 * hi + (lo \div Two23)
             r   == IF big THEN lo ELSE lo % Two23
             hf  == IF big THEN Two23 ELSE Two23 \div 2
             e   == x.e + y.e + (IF big THEN MantBits ELSE MantBits - 1)
             up  == r > hf \/ (r = hf /\ q % 2 = 1)
             q1  == IF up THEN q + 1 ELSE q
         IN IF q1 = Two24 THEN [m |-> Two23, e |-> e + 1]
                          ELSE [m |-> q1, e |-> e]

\* ceil(x) for a float x >= 0.
FCeil(x) ==
    IF x.m = 0 \/ x.e >= 0 THEN x
    ELSE LET k == 0 - x.e IN
         IF k >= MantBits THEN ToFloat(1)
         ELSE LET q == x.m \div 2^k
                  r == x.m % 2^k
              IN ToFloat(IF r > 0 THEN q + 1 ELSE q)

\* The binary32 value nearest to the rational p / q (q > 0): what the float
\* quotient p / q, or the float literal of that value, is.
RECURSIVE QuotShift(_, _, _)
QuotShift(p, q, k) ==
    IF p >= q * Two23 THEN
        IF p >= q * Two24 THEN QuotShift(p, q * 2, k + 1) ELSE <<p, q, k>>
    ELSE QuotShift(p * 2, q, k - 1)

RatToFloat(p, q) ==
    IF p = 0 THEN Zero
    ELSE LET s   == QuotShift(p, q, 0)
             qt  == s[1] \div s[2]
             rm  == s[1] % s[2]
             up  == 2 * rm > s[2] \/ (2 * rm = s[2] /\ qt % 2 = 1)
             qt1 == IF up THEN qt + 1 ELSE qt
         IN IF qt1 = Two24 THEN [m |-> Two23, e |-> s[3] + 1]
                           ELSE [m |-> qt1, e |-> s[3]]


(***************************************************************************)
(* Values a call can produce.                                              *)
(***************************************************************************)
None == [status |-> "none"]

Ok(v) == [status |-> "ok", val |-> v]

\* The out-of-bounds failure of a ContractionProblem accessor.
OutOfRange == [status |-> "out_of_range"]

\* ContractionSolution::computeGranularity is not part of this header: the
\* value of computeGranularity(x) is kept as the application itself.
computeGranularity(x) == [fn |-> "computeGranularity", arg |-> x]

(***************************************************************************)
(* ContractionProblem: the three families of sizes and their accessors.    *)
(***************************************************************************)
SeqsUpTo(first, rest, maxRank) ==
    UNION {{<<f>> \o r : f \in first, r \in [1..(n - 1) -> rest]} : n \in 1..maxRank}

ProblemsOver(first, rest, maxRank) ==
    [freeSizesA : SeqsUpTo(first, rest, maxRank),
     freeSizesB : SeqsUpTo(first, rest, maxRank),
     boundSizes : SeqsUpTo(rest, rest, maxRank)]

Problems == ProblemsOver(0..MaxSize, {BigSize}, MaxRank)

ConcProblems == ProblemsOver({MaxSize}, {BigSize}, 1)

SizeAt(sizes, idx) ==
    IF idx < Len(sizes) THEN [ok |-> TRUE, size |-> sizes[idx + 1]]
                        ELSE [ok |-> FALSE, size |-> 0]

freeSizeA(p, idx) == SizeAt(p.freeSizesA, idx)

freeSizeB(p, idx) == SizeAt(p.freeSizesB, idx)

boundSize(p, idx) == SizeAt(p.boundSizes, idx)

(***************************************************************************)
(* The seven feature structs: enum flags, data members, Type().            *)
(***************************************************************************)
Kinds == {"FreeSizeA", "FreeSizeB", "BoundSize", "Tile0Granularity",
          "Tile1Granularity", "CUGranularity", "WavesPerSIMD"}

HasIndex(k) ==
    CASE k = "FreeSizeA" -> TRUE
      [] k = "FreeSizeB" -> TRUE
      [] k = "BoundSize" -> TRUE
      [] k = "Tile0Granularity" -> FALSE
      [] k = "Tile1Granularity" -> FALSE
      [] k = "CUGranularity" -> FALSE
      [] k = "WavesPerSIMD" -> FALSE

\* CUGranularity's HasValue flag left false.
HasValue_unsetForCU(k) ==
    k \in {"Tile0Granularity", "Tile1Granularity", "WavesPerSIMD"}

HasValue(k) ==
    CASE k = "FreeSizeA" -> FALSE
      [] k = "FreeSizeB" -> FALSE
      [] k = "BoundSize" -> FALSE
      [] k = "Tile0Granularity" -> TRUE
      [] k = "Tile1Granularity" -> TRUE
      [] k = "CUGranularity" -> TRUE
      [] k = "WavesPerSIMD" -> TRUE

\* Copy-and-paste slip: FreeSizeB answering FreeSizeA's name.
Type_copied(k) == IF k = "FreeSizeB" THEN "FreeSizeA" ELSE k

Type(k) ==
    CASE k = "FreeSizeA" -> "FreeSizeA"
      [] k = "FreeSizeB" -> "FreeSizeB"
      [] k = "BoundSize" -> "BoundSize"
      [] k = "Tile0Granularity" -> "Tile0Granularity"
      [] k = "Tile1Granularity" -> "Tile1Granularity"
      [] k = "CUGranularity" -> "CUGranularity"
      [] k = "WavesPerSIMD" -> "WavesPerSIMD"

\* ContractionSolution::GranularityScaleFactors, by the members used here.
GranularityScaleFactors(mt0s, mt1s, devs) ==
    [mt0_scale : mt0s, mt1_scale : mt1s, devSolScale : devs]

\* The instances of each struct: its data members (size_t index, float
\* value, GranularityScaleFactors value) over the given payloads.
FreeSizeA_instances(idxs) == {[type |-> "FreeSizeA", index |-> i] : i \in idxs}

FreeSizeB_instances(idxs) == {[type |-> "FreeSizeB", index |-> i] : i \in idxs}

BoundSize_instances(idxs) == {[type |-> "BoundSize", index |-> i] : i \in idxs}

Tile0Granularity_instances(mts) ==
    {[type |-> "Tile0Granularity", value |-> v] : v \in mts}

Tile1Granularity_instances(mts) ==
    {[type |-> "Tile1Granularity", value |-> v] : v \in mts}

CUGranularity_instances(mt0s, mt1s, devs) ==
    {[type |-> "CUGranularity", value |-> v] :
        v \in GranularityScaleFactors(mt0s, mt1s, devs)}

WavesPerSIMD_instances(mt0s, mt1s, devs) ==
    {[type |-> "WavesPerSIMD", value |-> v] :
        v \in GranularityScaleFactors(mt0s, mt1s, devs)}

\* Scale factors as the solution sets them: 1/mt (the comments at the value
\* members) and 1/(a device divisor).
MtScales == {RatToFloat(1, d) : d \in 1..MaxTile}

DevScales == {RatToFloat(1, MaxDevDiv)}

Features ==
    FreeSizeA_instances(0..MaxIndex) \cup FreeSizeB_instances(0..MaxIndex)
      \cup BoundSize_instances(0..MaxIndex)
      \cup Tile0Granularity_instances(MtScales) \cup Tile1Granularity_instances(MtScales)
      \cup CUGranularity_instances(MtScales, MtScales, DevScales)
      \cup WavesPerSIMD_instances(MtScales, MtScales, DevScales)

WholeTile == RatToFloat(1, 1)

SmallTile == RatToFloat(1, MaxTile)

\* One instance of each struct, and a second CUGranularity with another
\* mt0_scale.
ConcFeatures ==
    FreeSizeA_instances({0}) \cup FreeSizeB_instances({0}) \cup BoundSize_instances({0})
      \cup Tile0Granularity_instances({SmallTile}) \cup Tile1Granularity_instances({SmallTile})
      \cup CUGranularity_instances({WholeTile, SmallTile}, {SmallTile}, DevScales)
      \cup WavesPerSIMD_instances({WholeTile}, {SmallTile}, DevScales)

(***************************************************************************)
(* The bodies of the operator() overrides, line by line.                   *)
(***************************************************************************)
\* A failed accessor call leaves operator() by the accessor's failure;
\* otherwise the size is converted to float,
Converted(r) == IF r.ok THEN Ok(ToFloat(r.size)) ELSE OutOfRange

\* or converted and multiplied by a float scale.
Scaled(r, scale) == IF r.ok THEN Ok(FMul(ToFloat(r.size), scale)) ELSE OutOfRange

FreeSizeA_eval(f, p) == Converted(freeSizeA(p, f.index))

\* Copy-and-paste slip: FreeSizeB reading the A family.
FreeSizeB_eval_readsA(f, p) == Converted(freeSizeA(p, f.index))

FreeSizeB_eval(f, p) == Converted(freeSizeB(p, f.index))

\* Pre-validation: an index past the end answers 0 instead of failing.
BoundSize_eval_clamped(f, p) ==
    IF f.index < Len(p.boundSizes) THEN Converted(boundSize(p, f.index))
                                   ELSE Ok(Zero)

BoundSize_eval(f, p) == Converted(boundSize(p, f.index))

\* At least one tile is counted, whatever the size.
Tile0Granularity_numTiles_atLeastOne(f, p) ==
    LET r == freeSizeA(p, 0)
    IN Scaled([r EXCEPT !.size = IF @ = 0 THEN 1 ELSE @], f.value)

Tile0Granularity_numTiles(f, p) ==
    Scaled(freeSizeA(p, 0), f.value)

Tile0Granularity_return(numTiles) == Ok(computeGranularity(numTiles))

Tile1Granularity_numTiles(f, p) ==
    Scaled(freeSizeB(p, 0), f.value)

Tile1Granularity_return(numTiles) == Ok(computeGranularity(numTiles))

NumBatches == ToFloat(1)

CUGranularity_numTilesM(f, p) ==
    Scaled(freeSizeA(p, 0), f.value.mt0_scale)

CUGranularity_numTilesN(f, p) ==
    Scaled(freeSizeB(p, 0), f.value.mt1_scale)

\* The ceiling taken of the product of the two tile counts.
CUGranularity_tilesPerCu_ceilOfProduct(f, numTilesM, numTilesN) ==
    FMul(FMul(NumBatches, FCeil(FMul(numTilesM, numTilesN))), f.value.devSolScale)

\* Left to right, in float.  (Were ceil the double overload, the product
\* would be taken in double and narrowed on the assignment: the same value
\* as long as ceil(numTilesM) * ceil(numTilesN) is below 2^24.)
CUGranularity_tilesPerCu(f, numTilesM, numTilesN) ==
    FMul(FMul(FMul(NumBatches, FCeil(numTilesM)), FCeil(numTilesN)), f.value.devSolScale)

CUGranularity_return(tilesPerCu) == Ok(computeGranularity(tilesPerCu))

WavesPerSIMD_numTilesM(f, p) ==
    Scaled(freeSizeA(p, 0), f.value.mt0_scale)

WavesPerSIMD_numTilesN(f, p) ==
    Scaled(freeSizeB(p, 0), f.value.mt1_scale)

WavesPerSIMD_totalTiles(numTilesM, numTilesN) == FMul(FCeil(numTilesM), FCeil(numTilesN))

\* The wave count passed through computeGranularity, as CUGranularity does.
WavesPerSIMD_return_normalized(f, totalTiles) ==
    Ok(computeGranularity(FMul(totalTiles, f.value.devSolScale)))

WavesPerSIMD_return(f, totalTiles) == Ok(FMul(totalTiles, f.value.devSolScale))

\* One whole call, run alone: the virtual operator() of the instance.
Evaluate(f, p) ==
    CASE f.type = "FreeSizeA" -> FreeSizeA_eval(f, p)
      [] f.type = "FreeSizeB" -> FreeSizeB_eval(f, p)
      [] f.type = "BoundSize" -> BoundSize_eval(f, p)
      [] f.type = "Tile0Granularity" ->
            LET nt == Tile0Granularity_numTiles(f, p)
            IN IF nt.status # "ok" THEN nt ELSE Tile0Granularity_return(nt.val)
      [] f.type = "Tile1Granularity" ->
            LET nt == Tile1Granularity_numTiles(f, p)
            IN IF nt.status # "ok" THEN nt ELSE Tile1Granularity_return(nt.val)
      [] f.type = "CUGranularity" ->
            LET ntM == CUGranularity_numTilesM(f, p)
                ntN == CUGranularity_numTilesN(f, p)
            IN IF ntM.status # "ok" THEN ntM
               ELSE IF ntN.status # "ok" THEN ntN
               ELSE CUGranularity_return(CUGranularity_tilesPerCu(f, ntM.val, ntN.val))
      [] f.type = "WavesPerSIMD" ->
            LET ntM == WavesPerSIMD_numTilesM(f, p)
                ntN == WavesPerSIMD_numTilesN(f, p)
            IN IF ntM.status # "ok" THEN ntM
               ELSE IF ntN.status # "ok" THEN ntN
               ELSE WavesPerSIMD_return(f, WavesPerSIMD_totalTiles(ntM.val, ntN.val))

(***************************************************************************)
(* State.                                                                  *)
(***************************************************************************)
VARIABLES
    problem,   \* the ContractionProblem every call reads
    feature,   \* feature[t]: the configured instance thread t evaluates
    pc,        \* pc[t]: "idle", the next line of operator(), or "done"
    frame,     \* frame[t]: the locals of the call in progress
    ret,       \* ret[t]: what the finished call returned or threw
    last,      \* last[t]: what the call before it returned or threw
    typ        \* typ[t]: the Type() answer the caller holds ("" if none),
               \* dropped when it goes on to call or collect

vars == <<problem, feature, pc, frame, ret, last, typ>>

Threads == DOMAIN pc

Unset == [m |-> 0 - 1, e |-> 0]

NoFrame == [numTiles |-> Unset, numTilesM |-> Unset, numTilesN |-> Unset,
            tilesPerCu |-> Unset, totalTiles |-> Unset]

InitOver(threads, problems, features) ==
    /\ problem \in problems
    /\ feature \in [threads -> features]
    /\ pc = [t \in threads |-> "idle"]
    /\ frame = [t \in threads |-> NoFrame]
    /\ ret = [t \in threads |-> None]
    /\ last = [t \in threads |-> None]
    /\ typ = [t \in threads |-> ""]

\* One caller, the whole range of problems and payloads.
Init == InitOver({1}, Problems, Features)

\* NumThreads callers on one problem.
InitConc == InitOver(1..NumThreads, ConcProblems, ConcFeatures)

(***************************************************************************)
(* Steps of a call.                                                        *)
(***************************************************************************)
\* operator() is left: by return or by the accessor's failure.
Leave(t, r) ==
    /\ ret' = [ret EXCEPT ![t] = r]
    /\ pc' = [pc EXCEPT ![t] = "done"]
    /\ frame' = [frame EXCEPT ![t] = NoFrame]
    /\ typ' = [typ EXCEPT ![t] = ""]
    /\ UNCHANGED <<problem, feature, last>>

\* A line that defines local `name` from r, or is left by r's failure.
Bind(t, name, r, next) ==
    IF r.status = "ok"
    THEN /\ frame' = [frame EXCEPT ![t][name] = r.val]
         /\ pc' = [pc EXCEPT ![t] = next]
         /\ typ' = [typ EXCEPT ![t] = ""]
         /\ UNCHANGED <<problem, feature, ret, last>>
    ELSE Leave(t, r)

Starts(t, k) == pc[t] = "idle" /\ feature[t].type = k

\* operator() not const: the index advances with every call.
FreeSizeA_call_advancing(t) ==
    /\ Starts(t, "FreeSizeA")
    /\ ret' = [ret EXCEPT ![t] = FreeSizeA_eval(feature[t], problem)]
    /\ pc' = [pc EXCEPT ![t] = "done"]
    /\ feature' = [feature EXCEPT ![t].index = (@ + 1) % (MaxIndex + 1)]
    /\ typ' = [typ EXCEPT ![t] = ""]
    /\ UNCHANGED <<problem, frame, last>>

FreeSizeA_call(t) ==
    /\ Starts(t, "FreeSizeA")
    /\ Leave(t, FreeSizeA_eval(feature[t], problem))

FreeSizeB_call(t) ==
    /\ Starts(t, "FreeSizeB")
    /\ Leave(t, FreeSizeB_eval(feature[t], problem))

BoundSize_call(t) ==
    /\ Starts(t, "BoundSize")
    /\ Leave(t, BoundSize_eval(feature[t], problem))

Tile0Granularity_L145(t) ==
    /\ Starts(t, "Tile0Granularity")
    /\ Bind(t, "numTiles", Tile0Granularity_numTiles(feature[t], problem), "T0_L146")

Tile0Granularity_L146(t) ==
    /\ pc[t] = "T0_L146"
    /\ Leave(t, Tile0Granularity_return(frame[t].numTiles))

Tile1Granularity_L166(t) ==
    /\ Starts(t, "Tile1Granularity")
    /\ Bind(t, "numTiles", Tile1Granularity_numTiles(feature[t], problem), "T1_L167")

Tile1Granularity_L167(t) ==
    /\ pc[t] = "T1_L167"
    /\ Leave(t, Tile1Granularity_return(frame[t].numTiles))

\* numTilesM declared static: one variable for every call in progress.
CUGranularity_L192_static(t) ==
    /\ Starts(t, "CUGranularity")
    /\ LET r == CUGranularity_numTilesM(feature[t], problem) IN
         /\ frame' = [u \in Threads |-> [frame[u] EXCEPT !.numTilesM = r.val]]
         /\ pc' = [pc EXCEPT ![t] = "CU_L193"]
         /\ typ' = [typ EXCEPT ![t] = ""]
         /\ UNCHANGED <<problem, feature, ret, last>>

CUGranularity_L192(t) ==
    /\ Starts(t, "CUGranularity")
    /\ Bind(t, "numTilesM", CUGranularity_numTilesM(feature[t], problem), "CU_L193")

CUGranularity_L193(t) ==
    /\ pc[t] = "CU_L193"
    /\ Bind(t, "numTilesN", CUGranularity_numTilesN(feature[t], problem), "CU_L194")

CUGranularity_L194(t) ==
    /\ pc[t] = "CU_L194"
    /\ Bind(t, "tilesPerCu",
            Ok(CUGranularity_tilesPerCu(feature[t], frame[t].numTilesM, frame[t].numTilesN)),
            "CU_L197")

CUGranularity_L197(t) ==
    /\ pc[t] = "CU_L197"
    /\ Leave(t, CUGranularity_return(frame[t].tilesPerCu))

WavesPerSIMD_L223(t) ==
    /\ Starts(t, "WavesPerSIMD")
    /\ Bind(t, "numTilesM", WavesPerSIMD_numTilesM(feature[t], problem), "WS_L224")

WavesPerSIMD_L224(t) ==
    /\ pc[t] = "WS_L224"
    /\ Bind(t, "numTilesN", WavesPerSIMD_numTilesN(feature[t], problem), "WS_L225")

WavesPerSIMD_L225(t) ==
    /\ pc[t] = "WS_L225"
    /\ Bind(t, "totalTiles",
            Ok(WavesPerSIMD_totalTiles(frame[t].numTilesM, frame[t].numTilesN)),
            "WS_L226")

WavesPerSIMD_L226(t) ==
    /\ pc[t] = "WS_L226"
    /\ Leave(t, WavesPerSIMD_return(feature[t], frame[t].totalTiles))

\* The caller takes the result into its vector and may call again.
Collect(t) ==
    /\ pc[t] = "done"
    /\ last' = [last EXCEPT ![t] = ret[t]]
    /\ ret' = [ret EXCEPT ![t] = None]
    /\ pc' = [pc EXCEPT ![t] = "idle"]
    /\ typ' = [typ EXCEPT ![t] = ""]
    /\ UNCHANGED <<problem, feature, frame>>

\* The caller asks the static Type() of its instance's class.
QueryType(t) ==
    /\ pc[t] \in {"idle", "done"}
    /\ typ' = [typ EXCEPT ![t] = Type(feature[t].type)]
    /\ UNCHANGED <<problem, feature, pc, frame, ret, last>>

Next ==
    \/ \E t \in Threads : FreeSizeA_call(t)
    \/ \E t \in Threads : FreeSizeB_call(t)
    \/ \E t \in Threads : BoundSize_call(t)
    \/ \E t \in Threads : Tile0Granularity_L145(t)
    \/ \E t \in Threads : Tile0Granularity_L146(t)
    \/ \E t \in Threads : Tile1Granularity_L166(t)
    \/ \E t \in Threads : Tile1Granularity_L167(t)
    \/ \E t \in Threads : CUGranularity_L192(t)
    \/ \E t \in Threads : CUGranularity_L193(t)
    \/ \E t \in Threads : CUGranularity_L194(t)
    \/ \E t \in Threads : CUGranularity_L197(t)
    \/ \E t \in Threads : WavesPerSIMD_L223(t)
    \/ \E t \in Threads : WavesPerSIMD_L224(t)
    \/ \E t \in Threads : WavesPerSIMD_L225(t)
    \/ \E t \in Threads : WavesPerSIMD_L226(t)
    \/ \E t \in Threads : Collect(t)
    \/ \E t \in Threads : QueryType(t)

Spec == Init /\ [][Next]_vars

SpecConc == InitConc /\ [][Next]_vars

(***************************************************************************)
(* Properties.                                                             *)
(***************************************************************************)
Done(t, k) == pc[t] = "done" /\ feature[t].type = k

M0 == problem.freeSizesA[1]

N0 == problem.freeSizesB[1]

Half == RatToFloat(1, 2)

Third == RatToFloat(1, 3)

Tenth == RatToFloat(1, 10)

\* ceil of each tile count, then the product, then the device scale.
PerDimension(sc) ==
    FMul(FMul(FMul(ToFloat(1), FCeil(FMul(ToFloat(M0), sc.mt0_scale))),
              FCeil(FMul(ToFloat(N0), sc.mt1_scale))),
         sc.devSolScale)

\* ceil of the product of the two tile counts, then the device scale.
CeilOfProduct(sc) ==
    FMul(FCeil(FMul(FMul(ToFloat(M0), sc.mt0_scale), FMul(ToFloat(N0), sc.mt1_scale))),
         sc.devSolScale)

\* C1: CUGranularity returns computeGranularity(1 * ceil(M*mt0_scale) *
\* ceil(N*mt1_scale) * devSolScale), the ceiling taken per dimension, and
\* never computeGranularity of the ceiling of the product when the two
\* differ; M=5, mt0_scale=1/2, N=3, mt1_scale=1/3, devSolScale=0.1 gives
\* computeGranularity(0.3).
C1_PerDimensionCeil ==
    \A t \in Threads :
        Done(t, "CUGranularity") =>
            LET sc == feature[t].value IN
            /\ ret[t] = Ok(computeGranularity(PerDimension(sc)))
            /\ CeilOfProduct(sc) # PerDimension(sc)
                   => ret[t] # Ok(computeGranularity(CeilOfProduct(sc)))
            /\ (M0 = 5 /\ N0 = 3 /\ sc = [mt0_scale |-> Half, mt1_scale |-> Third,
                                         devSolScale |-> Tenth])
                   => ret[t] = Ok(computeGranularity(RatToFloat(3, 10)))

\* A finished CUGranularity call on M=N=5 with 1/2-tiles: 3*3 tiles per
\* dimension against ceil(6.25) = 7 for the product.
C1_Witness ==
    \E t \in Threads :
        /\ Done(t, "CUGranularity")
        /\ M0 = 5 /\ N0 = 5
        /\ feature[t].value.mt0_scale = Half /\ feature[t].value.mt1_scale = Half
        /\ CeilOfProduct(feature[t].value) # PerDimension(feature[t].value)
        /\ ret[t] = Ok(computeGranularity(FMul(ToFloat(9), feature[t].value.devSolScale)))

\* C2: WavesPerSIMD returns the raw count ceil(M*mt0_scale) *
\* ceil(N*mt1_scale) * devSolScale, not passed through computeGranularity:
\* CUGranularity with the same payload on the same problem returns
\* computeGranularity of it, and the two differ whenever that is not the
\* count itself.
C2_WavesPerSIMDRaw ==
    \A t \in Threads :
        Done(t, "WavesPerSIMD") =>
            LET sc == feature[t].value
                x  == FMul(FMul(FCeil(FMul(ToFloat(M0), sc.mt0_scale)),
                                FCeil(FMul(ToFloat(N0), sc.mt1_scale))),
                           sc.devSolScale)
                cu == Evaluate([type |-> "CUGranularity", value |-> sc], problem)
            IN /\ ret[t] = Ok(x)
               /\ cu = Ok(computeGranularity(ret[t].val))
               /\ computeGranularity(x) # x => cu # ret[t]

\* A finished WavesPerSIMD call on M=5, N=3 with mt0_scale=1/2,
\* mt1_scale=1/3, devSolScale=0.1: it returned 0.3.
C2_Witness ==
    \E t \in Threads :
        /\ Done(t, "WavesPerSIMD")
        /\ M0 = 5 /\ N0 = 3
        /\ feature[t].value = [mt0_scale |-> Half, mt1_scale |-> Third,
                               devSolScale |-> Tenth]
        /\ ret[t] = Ok(RatToFloat(3, 10))

\* C3: Tile0Granularity with value = 1/mt0 on freeSizeA(0) = M returns
\* computeGranularity(M / mt0), and Tile1Granularity with value = 1/mt1 on
\* freeSizeB(0) = N returns computeGranularity(N / mt1).
C3_TileEqualsQuotient ==
    \A t \in Threads : \A mt \in 1..MaxTile :
        /\ (Done(t, "Tile0Granularity") /\ feature[t].value = RatToFloat(1, mt))
               => ret[t] = Ok(computeGranularity(RatToFloat(M0, mt)))
        /\ (Done(t, "Tile1Granularity") /\ feature[t].value = RatToFloat(1, mt))
               => ret[t] = Ok(computeGranularity(RatToFloat(N0, mt)))

\* x is the binary32 value of the integer s: s itself when it fits the
\* mantissa, else the nearest representable value, a tie going to the even
\* mantissa.
IsFloatOf(x, s) ==
    IF s = 0 THEN x = Zero
    ELSE /\ Two23 <= x.m /\ x.m < Two24
         /\ IF x.e <= 0 THEN x.m = s * 2^(0 - x.e)
            ELSE LET u == 2^x.e
                     d == IF x.m * u >= s THEN x.m * u - s ELSE s - x.m * u
                 IN /\ 2 * d <= u
                    /\ 2 * d = u => x.m % 2 = 0

InRange(sizes, idx) == idx < Len(sizes)

\* C4: FreeSizeA with index i returns exactly float(freeSizeA(i)), FreeSizeB
\* float(freeSizeB(i)), BoundSize float(boundSize(i)): each its own family
\* at its own index, nothing but the conversion.
C4_IndexedPassThrough ==
    \A t \in Threads :
        /\ (Done(t, "FreeSizeA") /\ InRange(problem.freeSizesA, feature[t].index))
               => /\ ret[t].status = "ok"
                  /\ IsFloatOf(ret[t].val, problem.freeSizesA[feature[t].index + 1])
        /\ (Done(t, "FreeSizeB") /\ InRange(problem.freeSizesB, feature[t].index))
               => /\ ret[t].status = "ok"
                  /\ IsFloatOf(ret[t].val, problem.freeSizesB[feature[t].index + 1])
        /\ (Done(t, "BoundSize") /\ InRange(problem.boundSizes, feature[t].index))
               => /\ ret[t].status = "ok"
                  /\ IsFloatOf(ret[t].val, problem.boundSizes[feature[t].index + 1])

\* A finished FreeSizeB call at index 1 on a problem whose A family has no
\* index 1 and whose freeSizeB(1) = 2^24 + 1 does not fit a float mantissa:
\* it returned 2^24.
C4_Witness ==
    \E t \in Threads :
        /\ Done(t, "FreeSizeB")
        /\ feature[t].index = 1
        /\ Len(problem.freeSizesA) = 1
        /\ Len(problem.freeSizesB) = 2
        /\ problem.freeSizesB[2] = BigSize
        /\ problem.freeSizesB[1] # problem.freeSizesA[1]
        /\ ret[t] = Ok([m |-> Two23, e |-> 1])

\* C5: on a size 0 along the dimension a feature reads, numTiles is 0 and
\* the call completes: computeGranularity(0) for Tile0Granularity,
\* Tile1Granularity and CUGranularity, 0 * devSolScale = 0 for WavesPerSIMD.
C5_ZeroSize ==
    \A t \in Threads :
        /\ (pc[t] = "T0_L146" /\ M0 = 0) => frame[t].numTiles = Zero
        /\ (pc[t] = "T1_L167" /\ N0 = 0) => frame[t].numTiles = Zero
        /\ (pc[t] \in {"CU_L193", "WS_L224"} /\ M0 = 0) => frame[t].numTilesM = Zero
        /\ (pc[t] \in {"CU_L194", "WS_L225"} /\ N0 = 0) => frame[t].numTilesN = Zero
        /\ (Done(t, "Tile0Granularity") /\ M0 = 0)
               => ret[t] = Ok(computeGranularity(Zero))
        /\ (Done(t, "Tile1Granularity") /\ N0 = 0)
               => ret[t] = Ok(computeGranularity(Zero))
        /\ (Done(t, "CUGranularity") /\ (M0 = 0 \/ N0 = 0))
               => ret[t] = Ok(computeGranularity(Zero))
        /\ (Done(t, "WavesPerSIMD") /\ (M0 = 0 \/ N0 = 0))
               => ret[t] = Ok(Zero)

\* A finished Tile0Granularity call on freeSizeA(0) = 0.
C5_Witness ==
    \E t \in Threads :
        /\ Done(t, "Tile0Granularity")
        /\ M0 = 0
        /\ ret[t] = Ok(computeGranularity(Zero))

\* C6: a repeated call returns what the call before it returned, whatever
\* other calls ran in between, and no step of any call changes the problem
\* or an instance's configuration.
C6_Repeatable ==
    [][/\ problem' = problem
       /\ feature' = feature
       /\ \A t \in Threads :
              (pc[t] # "done" /\ pc'[t] = "done" /\ last[t] # None)
                  => ret'[t] = last[t]]_vars

\* A second call has finished with the first call's result, after another
\* thread's call finished too.
C6_Witness ==
    \E t, u \in Threads :
        /\ t # u
        /\ pc[t] = "done"
        /\ last[t] # None
        /\ ret[t] = last[t]
        /\ last[u] # None
        /\ feature[u] # feature[t]

\* C7: the seven Type() strings are pairwise distinct, and Type() answers
\* the same string for a class whatever the instance's configuration and
\* whatever calls ran before the query.
C7_TypeNames ==
    /\ \A k1, k2 \in Kinds : k1 # k2 => Type(k1) # Type(k2)
    /\ \A t, u \in Threads :
           (typ[t] # "" /\ typ[u] # "")
               => (typ[t] = typ[u] <=> feature[t].type = feature[u].type)

\* Two instances of one class with different payloads, one queried after a
\* finished call and one before any, answered the same name.
C7_Witness ==
    \E t, u \in Threads :
        /\ feature[t].type = feature[u].type
        /\ feature[t] # feature[u]
        /\ last[t] # None
        /\ last[u] = None /\ pc[u] = "idle"
        /\ typ[t] # ""
        /\ typ[t] = typ[u]

IndexedKinds == {"FreeSizeA", "FreeSizeB", "BoundSize"}

\* The family of sizes an indexed instance reads.
FamilyOf(f) ==
    CASE f.type = "FreeSizeA" -> problem.freeSizesA
      [] f.type = "FreeSizeB" -> problem.freeSizesB
      [] f.type = "BoundSize" -> problem.boundSizes

\* C8: an indexed feature called with an index out of range for its family
\* ends in exactly the accessor's out-of-bounds failure, never a value, and
\* leaves the instance and the problem as they were.
C8_OutOfRangePropagates ==
    [][\A t \in Threads :
           (/\ pc[t] = "idle" /\ pc'[t] = "done"
            /\ feature[t].type \in IndexedKinds
            /\ ~InRange(FamilyOf(feature[t]), feature[t].index))
               => /\ ret'[t] = OutOfRange
                  /\ feature' = feature
                  /\ problem' = problem]_vars

\* A finished BoundSize call at index 1 on a problem with one bound size.
C8_Witness ==
    \E t \in Threads :
        /\ Done(t, "BoundSize")
        /\ feature[t].index = 1
        /\ Len(problem.boundSizes) = 1
        /\ ret[t] = OutOfRange

\* C9: calls running concurrently on one problem each return what the call
\* returns when run alone.
C9_Interleaved ==
    \A t \in Threads :
        pc[t] = "done" => ret[t] = Evaluate(feature[t], problem)

\* One call has finished while another, of a different instance, is in the
\* middle of operator().
C9_Witness ==
    \E t, u \in Threads :
        /\ Done(t, "WavesPerSIMD")
        /\ ret[t] = Evaluate(feature[t], problem)
        /\ pc[u] = "CU_L194"
        /\ feature[u].value.mt0_scale # feature[t].value.mt0_scale

\* C10: every class has exactly one of HasIndex and HasValue; FreeSizeA,
\* FreeSizeB and BoundSize are indexed and carry only an index; the four
\* others carry only a value.
C10_ExclusiveShapes ==
    /\ \A k \in Kinds : HasIndex(k) # HasValue(k)
    /\ \A k \in IndexedKinds : HasIndex(k) /\ ~HasValue(k)
    /\ \A k \in Kinds \ IndexedKinds : ~HasIndex(k) /\ HasValue(k)
    /\ \A t \in Threads :
           DOMAIN feature[t] =
               {"type"} \cup (IF HasIndex(feature[t].type) THEN {"index"} ELSE {})
                        \cup (IF HasValue(feature[t].type) THEN {"value"} ELSE {})

\* A configured CUGranularity instance has been evaluated.
C10_Witness ==
    \E t \in Threads :
        /\ Done(t, "CUGranularity")
        /\ DOMAIN feature[t] = {"type", "value"}

=============================================================================
